---- MODULE Spec2Model ----
(***************************************************************************)
(* A model of graphkit/base.py: the jetsam() diagnostic salvager, the      *)
(* Operation invocation wrapper, name-based identity, pickling, and the    *)
(* NetworkOperation configuration setters.                                 *)
(*                                                                         *)
(* In jetsam and _compute a Python value is a string token ("1", "None",   *)
(* the repr of a list); an instance attribute is a record whose one field  *)
(* names its type.  A dict is a TLA+ function whose DOMAIN is its key set, *)
(* an instance's __dict__ likewise, an ordered dict of keyword arguments a *)
(* sequence of items with distinct keys.                                   *)
(* Python 3 semantics are modelled: a bare `raise` re-raises the exception *)
(* being handled by the enclosing (caller's) handler, also after an inner  *)
(* try/except of the same frame has handled another exception.  "Raises"   *)
(* means raising an Exception subclass; BaseException-only exits           *)
(* (KeyboardInterrupt ...) pass through every handler here and are left    *)
(* out.                                                                    *)
(***************************************************************************)
EXTENDS Integers, Sequences, FiniteSets, TLC

VARIABLES
    ex,         \* jetsam: the propagating error [kind, attrs]
    last,       \* jetsam: what the last jetsam call was given and what it raised
    first,      \* jetsam: history, per slot the first value resolved for each key
    op,         \* _compute: the Operation instance being invoked
    call,       \* _compute: the last invocation, its inputs and its outcome
    objs,       \* instances: A (and B) built by a constructor, or B unpickled
    pickled,    \* the state dict __getstate__ produced last, if any
    res         \* the last operation on the instances and what it gave

jvars == <<ex, last, first>>
cvars == <<op, call>>
ovars == <<objs, pickled, res>>
vars == <<jvars, cvars, ovars>>

\* ---------------------------------------------------------------- bounds

\* longest positional salvage_vars list handed to jetsam
MaxVars == 1
\* longest needs / provides list of an operation
MaxNames == 2
\* longest outputs list asked of _compute
MaxOutputs == 2
\* longest result list compute returns
MaxResults == 2

\* ------------------------------------------------------- Python values

\* Python's None
None == "None"

\* values held by local variables of a failing scope
Values == {"1", "2", None}

\* names of local variables / destination keys
Names == {"v", "w"}

\* the default annotation attribute name, base.py:82
DefaultAnnotation == "graphkit_jetsam"

\* attribute names an annotation is attached under: no caller of this
\* repository passes annotation=..., so the default one
Slots == {DefaultAnnotation}

\* a dict with no items
EmptyDict == [k \in {} |-> None]

\* dict.get(k): None when the key is absent
DictGet(d, k) == IF k \in DOMAIN d THEN d[k] ELSE None

\* a setdefault that overwrites the key it finds
SetDefaultMutant(d, k, v) ==
    [x \in DOMAIN d \cup {k} |-> IF x = k THEN v ELSE d[x]]

\* dict.setdefault(k, v): insert only when the key is absent
SetDefault(d, k, v) ==
    IF k \in DOMAIN d THEN d
    ELSE [x \in DOMAIN d \cup {k} |-> IF x = k THEN v ELSE d[x]]

\* sequences over S of length at most n
SeqsUpTo(S, n) == UNION {[1..m -> S] : m \in 0..n}

\* all dicts with keys among K and values among V
Dicts(K, V) == UNION {[S -> V] : S \in SUBSET K}

\* ------------------------------------------------------------- jetsam

\* a salvage source: a variable name (str) or a callable
NameSrc(n) == [callable |-> FALSE, id |-> n]
CallSrc(f) == [callable |-> TRUE, id |-> f]

\* the accessor callers pass: "get_v" is `lambda locs: locs["v"]`, which
\* raises KeyError when the snapshot has no "v"
Accessors == {"get_v"}

\* src(locs) for a callable src: [ok, val]; ok = FALSE when it raises
CallAccessor(f, locs) ==
    IF f = "get_v" /\ "v" \in DOMAIN locs
    THEN [ok |-> TRUE, val |-> locs["v"]]
    ELSE [ok |-> FALSE, val |-> None]

\* a lookup that defaults to a sentinel instead of None
ResolveMutant(src, locs) ==
    IF src.callable THEN CallAccessor(src.id, locs)
    ELSE [ok |-> TRUE,
          val |-> IF src.id \in DOMAIN locs THEN locs[src.id] ELSE "<not found>"]

\* base.py:110  src(locs) if callable(src) else locs.get(src)
Resolve(src, locs) ==
    IF src.callable THEN CallAccessor(src.id, locs)
    ELSE [ok |-> TRUE, val |-> DictGet(locs, src.id)]

\* keys of an ordered dict given as a sequence of [dst, src] items
KwKeys(kw) == {kw[i].dst : i \in 1..Len(kw)}

\* base.py:82  salvage_mappings.pop("annotation", "graphkit_jetsam")
PopAnnotation(kw) ==
    LET hit == {i \in 1..Len(kw) : kw[i].dst = "annotation"}
    IN  IF hit = {}
        THEN [annotation |-> DefaultAnnotation, rest |-> kw]
        ELSE LET i == CHOOSE j \in hit : TRUE
             IN  [annotation |-> kw[i].src.id,
                  rest |-> SubSeq(kw, 1, i - 1) \o SubSeq(kw, i + 1, Len(kw))]

\* base.py:97-99  positional names become name -> name items unless the key
\* was given as a keyword
RECURSIVE MergeVars(_, _)
MergeVars(salvage_vars, kw) ==
    IF salvage_vars = << >> THEN kw
    ELSE LET var == Head(salvage_vars)
         IN  MergeVars(Tail(salvage_vars),
                       IF var \in KwKeys(kw) THEN kw
                       ELSE Append(kw, [dst |-> var, src |-> NameSrc(var)]))

\* a salvage loop without the per-item try/except: the first failure leaves it
RECURSIVE SalvageItemsMutant(_, _, _)
SalvageItemsMutant(items, locs, annotations) ==
    IF items = << >> THEN [d |-> annotations, failed |-> FALSE]
    ELSE LET r == Resolve(Head(items).src, locs)
         IN  IF r.ok
             THEN SalvageItemsMutant(Tail(items), locs,
                                     SetDefault(annotations, Head(items).dst, r.val))
             ELSE [d |-> annotations, failed |-> TRUE]

\* base.py:108-116  the salvage loop: an item whose resolution raises is
\* logged and skipped, the others are inserted with setdefault
RECURSIVE SalvageItems(_, _, _)
SalvageItems(items, locs, annotations) ==
    IF items = << >> THEN [d |-> annotations, failed |-> FALSE]
    ELSE LET r == Resolve(Head(items).src, locs)
         IN  IF r.ok
             THEN SalvageItems(Tail(items), locs,
                               SetDefault(annotations, Head(items).dst, r.val))
             ELSE SalvageItems(Tail(items), locs, annotations)

\* an attribute of the error: absent, a dict, or some other object
NoAttr == [kind |-> "absent", d |-> EmptyDict]
DictAttr(d) == [kind |-> "dict", d |-> d]
OtherAttr == [kind |-> "other", d |-> EmptyDict]

\* base.py:18-121  jetsam(ex, locs, *salvage_vars, **salvage_mappings).
\* e is the error being handled by the caller; e.kind = "frozen" is an
\* exception class whose __setattr__ raises.  The result is the error's
\* attributes afterwards and which exception leaves jetsam:
\*   "assertion"   an AssertionError of lines 84-94 (nothing mutated),
\*   "bookkeeping" ex2 of line 119: whatever escaped the try of line 101,
\*                 a failing setattr or an error that left the salvage loop,
\*   "original"    the bare raise of line 121.
jetsam(e, locs, salvage_vars, salvage_mappings) ==
    LET p == PopAnnotation(salvage_mappings)
        annotation == p.annotation
    IN  IF p.rest = << >>
        THEN [attrs |-> e.attrs, raised |-> "assertion"]
        ELSE LET items == MergeVars(salvage_vars, p.rest)
                 found == e.attrs[annotation]
             IN  IF found.kind # "dict" /\ e.kind = "frozen"
                 THEN [attrs |-> e.attrs, raised |-> "bookkeeping"]
                 ELSE LET annotations ==
                              IF found.kind = "dict" THEN found.d ELSE EmptyDict
                          s == SalvageItems(items, locs, annotations)
                      IN  IF s.failed
                          THEN [attrs |-> [e.attrs EXCEPT ![annotation] = DictAttr(s.d)],
                                raised |-> "bookkeeping"]
                          ELSE [attrs |-> [e.attrs EXCEPT ![annotation] = DictAttr(s.d)],
                                raised |-> "original"]

\* ----------------------------------------------------- Operation._compute

\* the elements of a sequence
Range(q) == {q[i] : i \in 1..Len(q)}

\* base.py:220  zip(provides, results): pairs up to the shorter length
Zip(a, b) ==
    LET n == IF Len(a) < Len(b) THEN Len(a) ELSE Len(b)
    IN  [i \in 1..n |-> <<a[i], b[i]>>]

\* base.py:224  filter(lambda x: x[0] in outs, results)
RECURSIVE FilterPairs(_, _)
FilterPairs(pairs, outs) ==
    IF pairs = << >> THEN << >>
    ELSE IF Head(pairs)[1] \in outs
         THEN <<Head(pairs)>> \o FilterPairs(Tail(pairs), outs)
         ELSE FilterPairs(Tail(pairs), outs)

\* base.py:226  dict(pairs): a later pair replaces an earlier one of its key
RECURSIVE DictOfPairs(_)
DictOfPairs(pairs) ==
    IF pairs = << >> THEN EmptyDict
    ELSE LET d == DictOfPairs(SubSeq(pairs, 1, Len(pairs) - 1))
             kv == pairs[Len(pairs)]
         IN  [k \in DOMAIN d \cup {kv[1]} |-> IF k = kv[1] THEN kv[2] ELSE d[k]]

\* an `if outputs is not None:` test
TruthyMutant(outputs) == ~outputs.none

\* base.py:222  `if outputs:` -- None and an empty list are both falsy
Truthy(outputs) == ~outputs.none /\ outputs.names # << >>

\* the token standing for an Operation instance in a snapshot
SelfToken(self) == "op:" \o self.name

\* the token standing for a list value in a snapshot
ListToken(q) == ToString(q)

\* a dict from a set of <<key, value>> pairs with distinct keys
DictFrom(kvs) ==
    [k \in {kv[1] : kv \in kvs} |-> (CHOOSE kv \in kvs : kv[1] = k)[2]]

\* a fresh error raised by the interpreter (KeyError, TypeError)
BuiltinError == [kind |-> "plain", attrs |-> [s \in Slots |-> NoAttr]]

\* base.py:228-230  the except clause: jetsam on the error with locals()
SalvageCompute(e, locs) ==
    jetsam(e, locs, <<"outputs", "provides", "args", "results">>,
           <<[dst |-> "operation", src |-> NameSrc("self")]>>)

\* locals() of _compute when the error is caught: `have` are the locals
\* assigned so far
ComputeLocals(self, outputs, have) ==
    DictFrom({<<"self", SelfToken(self)>>,
              <<"outputs", IF outputs.none THEN None ELSE ListToken(outputs.names)>>}
             \cup have)

\* base.py:214-230  Operation._compute(named_inputs, outputs).  `outcome` is
\* what the subclass's compute does with the arguments: it returns a list,
\* returns a non-iterable, or raises outcome.error.
\* The result: returned tells a mapping came back (ret); otherwise raised
\* says which exception left the call and attrs are the attributes of the
\* error that was caught.
ComputeWrapper(self, named_inputs, outputs, outcome) ==
    LET provides == self.provides
        pv == <<"provides", ListToken(provides)>>
    IN  IF \E i \in 1..Len(self.needs) : self.needs[i] \notin DOMAIN named_inputs
        THEN LET r == SalvageCompute(BuiltinError,
                                     ComputeLocals(self, outputs, {pv}))
             IN  [returned |-> FALSE, ret |-> EmptyDict, args |-> << >>,
                  called |-> FALSE, raised |-> r.raised, attrs |-> r.attrs]
        ELSE LET args == [i \in 1..Len(self.needs) |-> named_inputs[self.needs[i]]]
                 av == <<"args", ListToken(args)>>
             IN  CASE outcome.kind = "raise" ->
                        LET r == SalvageCompute(outcome.error,
                                                ComputeLocals(self, outputs, {pv, av}))
                        IN  [returned |-> FALSE, ret |-> EmptyDict, args |-> args,
                             called |-> TRUE, raised |-> r.raised, attrs |-> r.attrs]
                   [] outcome.kind = "noniterable" ->
                        LET r == SalvageCompute(BuiltinError,
                                     ComputeLocals(self, outputs,
                                                   {pv, av, <<"results", None>>}))
                        IN  [returned |-> FALSE, ret |-> EmptyDict, args |-> args,
                             called |-> TRUE, raised |-> r.raised, attrs |-> r.attrs]
                   [] OTHER ->
                        LET zipped == Zip(provides, outcome.results)
                            results == IF Truthy(outputs)
                                       THEN FilterPairs(zipped, Range(outputs.names))
                                       ELSE zipped
                        IN  [returned |-> TRUE, ret |-> DictOfPairs(results),
                             args |-> args, called |-> TRUE, raised |-> "none",
                             attrs |-> [s \in Slots |-> NoAttr]]

\* names of values in the store / names an operation provides
DataNames == {"x", "y"}
OutNames == {"p", "q"}
\* values in the store and values compute returns
StoreValues == {"5", "3"}
ResultValues == {"r1", "r2"}
\* the name of the operation invoked
OpNames == {"o1"}

\* base.py:151-182  Operation.__init__(name=, needs=, provides=)
NewOperation(name, needs, provides) ==
    [name |-> name, needs |-> needs, provides |-> provides]

Stores == Dicts(DataNames, StoreValues)

\* the outputs argument: None, or a list of names
OutputArgs ==
    {[none |-> TRUE, names |-> << >>]}
        \cup [none : {FALSE}, names : SeqsUpTo(OutNames, MaxOutputs)]

\* errors a compute implementation raises: fresh, or one that unwinds from
\* an inner operation and already carries that operation's annotation
InnerAnnotation == DictFrom({<<"operation", "op:inner">>, <<"args", "inner">>})

ComputeErrors ==
    [kind : {"plain", "frozen"},
     attrs : [Slots -> {NoAttr, DictAttr(InnerAnnotation)}]]

Outcomes ==
    [kind : {"return"}, results : SeqsUpTo(ResultValues, MaxResults),
     error : {BuiltinError}]
        \cup [kind : {"noniterable"}, results : {<< >>}, error : {BuiltinError}]
        \cup [kind : {"raise"}, results : {<< >>}, error : ComputeErrors]

\* no invocation in progress or pending
Idle ==
    [status |-> "idle", store |-> EmptyDict,
     outputs |-> [none |-> TRUE, names |-> << >>],
     outcome |-> [kind |-> "return", results |-> << >>, error |-> BuiltinError],
     ret |-> EmptyDict, args |-> << >>, called |-> FALSE, raised |-> "none",
     attrs |-> [s \in Slots |-> NoAttr]]

Operations ==
    {NewOperation(n, needs, provides) :
        n \in OpNames, needs \in SeqsUpTo(DataNames, MaxNames),
        provides \in SeqsUpTo(OutNames, MaxNames)}

\* no operation is being invoked
ComputeIdle ==
    /\ op = NewOperation("o1", << >>, << >>)
    /\ call = Idle

\* ------------------------------------------- instances and their attributes

\* An attribute value is a record whose one field names its Python type.
PyNone == [none |-> TRUE]
PyStr(s) == [str |-> s]
PyList(q) == [list |-> q]
PyDict(d) == [dict |-> d]
PyInt(n) == [int |-> n]
\* a read-only Mapping that is no MutableMapping
PyMappingProxy(d) == [mappingproxy |-> d]
\* the wrapped network object
PyNet == [network |-> "net"]

\* setattr(self, k, v) on the instance's __dict__
SetAttr(d, k, v) == [x \in DOMAIN d \cup {k} |-> IF x = k THEN v ELSE d[x]]

\* kwargs.get(k, default)
KwGet(kwargs, k, default) == IF k \in DOMAIN kwargs THEN kwargs[k] ELSE default

\* An instance: its class, its __dict__ d, and history kept for the claims:
\* hooks counts the _after_init calls made on it, via tells whether __init__
\* or __setstate__ built it, orig is the __dict__ of the instance its state
\* was taken from, validM / validC tell whether a setter call succeeded on it.
Unborn ==
    [cls |-> "none", d |-> EmptyDict, hooks |-> 0, via |-> "none",
     orig |-> EmptyDict, validM |-> FALSE, validC |-> FALSE]

\* object.__new__(cls): no attribute yet
Blank(cls, via) == [Unborn EXCEPT !.cls = cls, !.via = via]

\* base.py:232-240  _after_init: the hook, a no-op in the base class
AfterInit(self) == [self EXCEPT !.hooks = @ + 1]

\* base.py:151-182  Operation.__init__(**kwargs)
OperationInit(self, kwargs) ==
    LET d1 == SetAttr(self.d, "name", KwGet(kwargs, "name", PyNone))
        d2 == SetAttr(d1, "needs", KwGet(kwargs, "needs", PyNone))
        d3 == SetAttr(d2, "provides", KwGet(kwargs, "provides", PyNone))
        d4 == SetAttr(d3, "params", KwGet(kwargs, "params", PyDict(EmptyDict)))
    IN  AfterInit([self EXCEPT !.d = d4])

\* an equality that also compares needs and provides and accepts None names
OperationEqMutant(self, other) ==
    /\ "name" \in DOMAIN other
    /\ self.d["name"] = other["name"]
    /\ \A k \in {"needs", "provides"} : k \in DOMAIN other /\ self.d[k] = other[k]

\* base.py:184-189  Operation.__eq__: other may be any object
OperationEq(self, other) ==
    /\ self.d["name"] # PyNone
    /\ self.d["name"] = KwGet(other, "name", PyNone)

\* hash() of a name: strings of one length collide, None hashes apart
HashValue(x) == IF x = PyNone THEN 0 ELSE Len(x.str)

\* base.py:191-196  Operation.__hash__
OperationHash(self) == HashValue(self.d["name"])

\* a __getstate__ that drops params
OperationGetStateMutant(self) ==
    [k \in {"needs", "provides", "name"} |-> self.d[k]]

\* base.py:242-259  Operation.__getstate__
OperationGetState(self) ==
    [k \in ({"params"} \cap DOMAIN self.d) \cup {"needs", "provides", "name"} |->
        self.d[k]]

\* base.py:349-352  NetworkOperation.__getstate__
NetworkOperationGetState(self) ==
    SetAttr(OperationGetState(self), "net", self.d["net"])

\* __getstate__ as the instance's class defines it
GetState(self) ==
    IF self.cls = "NetworkOperation" THEN NetworkOperationGetState(self)
    ELSE OperationGetState(self)

\* base.py:261-267  Operation.__setstate__(state), inherited by
\* NetworkOperation: every key of the state becomes an attribute, then the
\* hook runs
OperationSetState(self, state) ==
    AfterInit([self EXCEPT !.d =
                  [k \in DOMAIN @ \cup DOMAIN state |->
                      IF k \in DOMAIN state THEN state[k] ELSE @[k]]])

\* base.py:288-294  NetworkOperation.__init__(net=, **kwargs)
NetworkOperationInit(self, kwargs) ==
    LET s1 == [self EXCEPT !.d = SetAttr(@, "net", kwargs["net"])]
        s2 == OperationInit(s1, kwargs)
    IN  [s2 EXCEPT !.d = SetAttr(SetAttr(@, "_execution_method", PyStr("sequential")),
                                 "_overwrites_collector", PyNone)]

\* a setter that stores the method before it validates it
SetExecutionMethodMutant(self, method) ==
    [raised |-> method \notin {PyStr("parallel"), PyStr("sequential")},
     self |-> [self EXCEPT !.d = SetAttr(@, "_execution_method", method),
                           !.validM = TRUE]]

\* base.py:316-329  set_execution_method(method): [raised, self]
SetExecutionMethod(self, method) ==
    IF method \notin {PyStr("parallel"), PyStr("sequential")}
    THEN [raised |-> TRUE, self |-> self]
    ELSE [raised |-> FALSE,
          self |-> [self EXCEPT !.d = SetAttr(@, "_execution_method", method),
                                !.validM = TRUE]]

\* isinstance(collector, abc.MutableMapping)
IsMutableMapping(c) == "dict" \in DOMAIN c

\* base.py:331-347  set_overwrites_collector(collector): [raised, self]
SetOverwritesCollector(self, collector) ==
    IF collector # PyNone /\ ~IsMutableMapping(collector)
    THEN [raised |-> TRUE, self |-> self]
    ELSE [raised |-> FALSE,
          self |-> [self EXCEPT !.d = SetAttr(@, "_overwrites_collector", collector),
                                !.validC = TRUE]]

\* base.py:302-311  NetworkOperation._compute / __call__: reading a missing
\* attribute raises AttributeError, otherwise net.compute gets the mode and
\* the collector
NetworkCompute(self) ==
    IF {"net", "_execution_method", "_overwrites_collector"} \subseteq DOMAIN self.d
    THEN [result |-> "delegated", method |-> self.d["_execution_method"],
          collector |-> self.d["_overwrites_collector"]]
    ELSE [result |-> "AttributeError", method |-> PyNone, collector |-> PyNone]

\* keyword arguments given to a constructor
KwValues(k) ==
    CASE k = "name" -> {PyStr("a"), PyStr("b"), PyStr("cc")}
      [] k = "needs" -> {PyList(<< >>), PyList(<<"x">>)}
      [] k = "provides" -> {PyList(<<"p">>)}
      [] k = "params" -> {PyDict(DictFrom({<<"k", "1">>}))}
      [] k = "net" -> {PyNet}

\* all dicts giving each key of some subset of K one of its values
KwargsOver(K) ==
    UNION {{f \in [S -> UNION {KwValues(k) : k \in S}] :
               \A k \in S : f[k] \in KwValues(k)} : S \in SUBSET K}

OperationKwargs == KwargsOver({"name", "needs", "provides", "params"})

NetKwargs ==
    {kw \in KwargsOver({"name", "params", "net"}) : "net" \in DOMAIN kw}

Methods == {PyStr("sequential"), PyStr("parallel"), PyStr("bogus"), PyNone}

Collectors ==
    {PyNone, PyDict(EmptyDict), PyInt(5), PyMappingProxy(EmptyDict)}

NoState ==
    [has |-> FALSE, cls |-> "none", state |-> EmptyDict, orig |-> EmptyDict]
NoRes == [kind |-> "none"]

\* the instance specifications are not running
ObjectsIdle ==
    /\ objs = [o \in {"A", "B"} |-> Unborn]
    /\ pickled = NoState
    /\ res = NoRes

\* ------------------------------------------------ jetsam: the state machine

\* a fresh exception instance: its class accepts new attributes ("plain") or
\* refuses them ("frozen"); a slot may already hold a non-dict object
Errors ==
    [kind : {"plain", "frozen"}, attrs : [Slots -> {NoAttr, OtherAttr}]]

\* nothing called yet
NoCall ==
    [raised |-> "none", slot |-> DefaultAnnotation, reached |-> FALSE,
     bookFail |-> FALSE, resolved |-> EmptyDict, fail |-> {},
     absent |-> {}, noneVar |-> {}]

\* snapshots of a failing scope: locals()
LocsSet == Dicts(Names, Values)

\* sources a keyword item may name
Sources == {NameSrc(n) : n \in Names} \cup {CallSrc(f) : f \in Accessors}

\* keyword items: key=source
KwItems == [dst : Names, src : Sources]

\* sequences without a repeated element (a dict has distinct keys)
Distinct(q) == \A i, j \in 1..Len(q) : i # j => q[i] # q[j]

KwSeqs ==
    {kw \in SeqsUpTo(KwItems, Cardinality(Names)) :
        \A i, j \in 1..Len(kw) : i # j => kw[i].dst # kw[j].dst}

VarSeqs == SeqsUpTo(Names, MaxVars)

\* the annotation dict under a slot; empty while none is attached
AnnotationOf(slot) ==
    IF ex.attrs[slot].kind = "dict" THEN ex.attrs[slot].d ELSE EmptyDict

\* a new error starts propagating
Raise ==
    /\ ex' \in Errors
    /\ last' = NoCall
    /\ first' = [s \in Slots |-> EmptyDict]
    /\ UNCHANGED <<cvars, ovars>>

\* a handler up the call chain calls jetsam on the propagating error
JetsamCall ==
    \E locs \in LocsSet, svars \in VarSeqs, kw \in KwSeqs :
        LET r == jetsam(ex, locs, svars, kw)
            p == PopAnnotation(kw)
            slot == p.annotation
            items == MergeVars(svars, p.rest)
            bookFail == /\ p.rest # << >>
                        /\ ex.attrs[slot].kind # "dict"
                        /\ ex.kind = "frozen"
            reached == p.rest # << >> /\ ~bookFail
            idx == 1..Len(items)
            okIdx == {i \in idx : Resolve(items[i].src, locs).ok}
            resolved == [k \in {items[i].dst : i \in okIdx} |->
                            LET i == CHOOSE j \in okIdx : items[j].dst = k
                            IN  Resolve(items[i].src, locs).val]
            fresh == {k \in DOMAIN resolved : k \notin DOMAIN AnnotationOf(slot)}
            names == {i \in idx : ~items[i].src.callable}
        IN  /\ ex' = [ex EXCEPT !.attrs = r.attrs]
            /\ last' =
                 [raised |-> r.raised, slot |-> slot, reached |-> reached,
                  bookFail |-> bookFail,
                  resolved |-> IF reached THEN resolved ELSE EmptyDict,
                  fail |-> IF reached
                           THEN {items[i].dst : i \in idx \ okIdx} ELSE {},
                  absent |-> IF reached
                             THEN {items[i].dst : i \in
                                     {j \in names : items[j].src.id \notin DOMAIN locs}}
                                  \cap fresh
                             ELSE {},
                  noneVar |-> IF reached
                              THEN {items[i].dst : i \in
                                      {j \in names : /\ items[j].src.id \in DOMAIN locs
                                                     /\ locs[items[j].src.id] = None}}
                                   \cap fresh
                              ELSE {}]
            /\ first' =
                 IF reached
                 THEN [first EXCEPT ![slot] =
                          [k \in DOMAIN @ \cup DOMAIN resolved |->
                              IF k \in DOMAIN @ THEN @[k] ELSE resolved[k]]]
                 ELSE first
            /\ UNCHANGED <<cvars, ovars>>

\* no error is propagating through jetsam
JetsamIdle ==
    /\ ex = BuiltinError
    /\ last = NoCall
    /\ first = [s \in Slots |-> EmptyDict]

InitJetsam ==
    /\ ex \in Errors
    /\ last = NoCall
    /\ first = [s \in Slots |-> EmptyDict]
    /\ ComputeIdle
    /\ ObjectsIdle

NextJetsam == Raise \/ JetsamCall

SpecJetsam == InitJetsam /\ [][NextJetsam]_vars

\* ------------------------------------------- _compute: the state machine

\* a (new) operation is constructed, base.py:151-182
Construct ==
    /\ call.status = "idle"
    /\ op' \in Operations
    /\ UNCHANGED <<call, jvars, ovars>>

\* the operation is invoked: the whole of _compute, its except clause and
\* jetsam included
Invoke ==
    /\ call.status = "idle"
    /\ \E store \in Stores, outputs \in OutputArgs, outcome \in Outcomes :
          LET r == ComputeWrapper(op, store, outputs, outcome)
          IN  call' = [status |-> IF r.returned THEN "returned" ELSE "raised",
                       store |-> store, outputs |-> outputs, outcome |-> outcome,
                       ret |-> r.ret, args |-> r.args, called |-> r.called,
                       raised |-> r.raised, attrs |-> r.attrs]
    /\ UNCHANGED <<op, jvars, ovars>>

\* the caller takes the mapping, or handles the exception
Collect ==
    /\ call.status # "idle"
    /\ call' = Idle
    /\ UNCHANGED <<op, jvars, ovars>>

InitCompute ==
    /\ op \in Operations
    /\ call = Idle
    /\ JetsamIdle
    /\ ObjectsIdle

NextCompute == Construct \/ Invoke \/ Collect

SpecCompute == InitCompute /\ [][NextCompute]_vars

\* ----------------------------------------------------- claims on jetsam

\* C1: after every jetsam call on the same propagating error the annotation
\* holds exactly the keys salvaged so far, each with the value resolved by the
\* first call that salvaged it; a later call never changes or removes one.
C1_InnermostWins ==
    \A s \in Slots : AnnotationOf(s) = first[s]

\* C1 witness: a later call resolved another value for a key already held,
\* and the annotation still holds the earlier one.
C1_Witness ==
    /\ last.raised = "original"
    /\ \E k \in DOMAIN last.resolved :
          /\ k \in DOMAIN AnnotationOf(last.slot)
          /\ AnnotationOf(last.slot)[k] = "1"
          /\ last.resolved[k] = "2"

\* C2: when an accessor raised inside jetsam, the caller observes the
\* original error and the annotation holds every requested key whose
\* resolution succeeded, wherever the failing item stood.
C2_NeverMasks ==
    last.fail # {} =>
        /\ last.raised = "original"
        /\ DOMAIN last.resolved \subseteq DOMAIN AnnotationOf(last.slot)

\* C2 witness: a call in which one item failed and another was salvaged.
C2_Witness ==
    /\ last.fail # {}
    /\ last.resolved # EmptyDict
    /\ last.raised = "original"

\* C3 (as claimed): when attaching the annotation to the error fails, the
\* exception leaving jetsam is still the original error.
C3_OriginalSurvivesBookkeeping ==
    last.bookFail => last.raised = "original"

\* C9 (as claimed): a name absent from the snapshot is recorded as a sentinel
\* that differs from what is recorded for a variable holding None.
C9_SentinelDistinct ==
    \A a \in last.absent, n \in last.noneVar :
        AnnotationOf(last.slot)[a] # AnnotationOf(last.slot)[n]

\* C9 (amended): a name absent from the snapshot is recorded as None, the
\* very entry recorded for a variable that holds None.
C9_AbsentIsNone ==
    /\ \A a \in last.absent : AnnotationOf(last.slot)[a] = None
    /\ \A n \in last.noneVar : AnnotationOf(last.slot)[n] = None

\* C9 witness: one call recorded an absent name and a variable holding None.
C9_Witness ==
    /\ last.absent # {}
    /\ last.noneVar # {}
    /\ last.raised = "original"

\* ------------------------------------------- instances: the state machines

\* Operation(**kwargs) is bound to o
ConstructOp(o) ==
    /\ \E kw \in OperationKwargs :
          objs' = [objs EXCEPT ![o] = OperationInit(Blank("Operation", "init"), kw)]
    /\ res' = [kind |-> "construct"]
    /\ UNCHANGED <<pickled, jvars, cvars>>

\* NetworkOperation(net=..., **kwargs) is bound to o
ConstructNet(o) ==
    /\ \E kw \in NetKwargs :
          objs' = [objs EXCEPT ![o] =
                      NetworkOperationInit(Blank("NetworkOperation", "init"), kw)]
    /\ res' = [kind |-> "construct"]
    /\ UNCHANGED <<pickled, jvars, cvars>>

\* x == y and the two hashes are evaluated; "obj" is an object that is no
\* Operation and has no name attribute
Compare ==
    /\ \E x \in {"A", "B"}, y \in {"A", "B", "obj"} :
          LET other == IF y = "obj" THEN EmptyDict ELSE objs[y].d
          IN  res' = [kind |-> "compare", x |-> x, y |-> y,
                      eq |-> OperationEq(objs[x], other),
                      hx |-> OperationHash(objs[x]),
                      hy |-> IF y = "obj" THEN -1 ELSE OperationHash(objs[y])]
    /\ UNCHANGED <<objs, pickled, jvars, cvars>>

\* pickling: o.__getstate__()
Pickle(o) ==
    /\ objs[o].cls # "none"
    /\ pickled' = [has |-> TRUE, cls |-> objs[o].cls, state |-> GetState(objs[o]),
                   orig |-> objs[o].d]
    /\ res' = [kind |-> "getstate"]
    /\ UNCHANGED <<objs, jvars, cvars>>

\* unpickling: o = cls.__new__(cls); o.__setstate__(state)
Unpickle(o) ==
    /\ pickled.has
    /\ objs' = [objs EXCEPT ![o] =
                   [OperationSetState(Blank(pickled.cls, "setstate"), pickled.state)
                       EXCEPT !.orig = pickled.orig]]
    /\ res' = [kind |-> "setstate"]
    /\ UNCHANGED <<pickled, jvars, cvars>>

\* o.set_execution_method(method)
SetMethod(o) ==
    /\ objs[o].cls = "NetworkOperation"
    /\ \E method \in Methods :
          LET r == SetExecutionMethod(objs[o], method)
          IN  /\ objs' = [objs EXCEPT ![o] = r.self]
              /\ res' = [kind |-> "set_execution_method", arg |-> method,
                         raised |-> r.raised, before |-> objs[o].d]
    /\ UNCHANGED <<pickled, jvars, cvars>>

\* o.set_overwrites_collector(collector)
SetCollector(o) ==
    /\ objs[o].cls = "NetworkOperation"
    /\ \E collector \in Collectors :
          LET r == SetOverwritesCollector(objs[o], collector)
          IN  /\ objs' = [objs EXCEPT ![o] = r.self]
              /\ res' = [kind |-> "set_overwrites_collector", arg |-> collector,
                         raised |-> r.raised, before |-> objs[o].d]
    /\ UNCHANGED <<pickled, jvars, cvars>>

\* o(named_inputs) / o._compute(named_inputs)
InvokeNet(o) ==
    /\ objs[o].cls = "NetworkOperation"
    /\ res' = [kind |-> "compute", out |-> NetworkCompute(objs[o])]
    /\ UNCHANGED <<objs, pickled, jvars, cvars>>

\* name-based identity: two operations are built and compared
InitIdent ==
    /\ \E ka, kb \in OperationKwargs :
          objs = [o \in {"A", "B"} |->
                    OperationInit(Blank("Operation", "init"),
                                  IF o = "A" THEN ka ELSE kb)]
    /\ pickled = NoState
    /\ res = NoRes
    /\ JetsamIdle
    /\ ComputeIdle

NextIdent == ConstructOp("A") \/ ConstructOp("B") \/ Compare

SpecIdent == InitIdent /\ [][NextIdent]_vars

\* pickling of an Operation: A is built, pickled, and rebound to what
\* unpickling gives
InitPickle ==
    /\ \E ka \in OperationKwargs :
          objs = [o \in {"A", "B"} |->
                    IF o = "A" THEN OperationInit(Blank("Operation", "init"), ka)
                    ELSE Unborn]
    /\ pickled = NoState
    /\ res = NoRes
    /\ JetsamIdle
    /\ ComputeIdle

NextPickle == ConstructOp("A") \/ Pickle("A") \/ Unpickle("A")

SpecPickle == InitPickle /\ [][NextPickle]_vars

\* a NetworkOperation: built, configured, invoked, pickled and unpickled
InitNet ==
    /\ \E ka \in NetKwargs :
          objs = [o \in {"A", "B"} |->
                    IF o = "A"
                    THEN NetworkOperationInit(Blank("NetworkOperation", "init"), ka)
                    ELSE Unborn]
    /\ pickled = NoState
    /\ res = NoRes
    /\ JetsamIdle
    /\ ComputeIdle

NextNet ==
    \/ ConstructNet("A")
    \/ SetMethod("A")
    \/ SetCollector("A")
    \/ InvokeNet("A")
    \/ Pickle("A")
    \/ Unpickle("A")

SpecNet == InitNet /\ [][NextNet]_vars

\* --------------------------------------------------- claims on _compute

\* some step of the last invocation raised: a need was missing from the
\* store, compute raised, or its result could not be paired with provides
StepRaised ==
    /\ call.status # "idle"
    /\ \/ \E i \in 1..Len(op.needs) : op.needs[i] \notin DOMAIN call.store
       \/ call.outcome.kind # "return"

\* the annotation the error carried when it reached _compute's handler
InnerOf ==
    IF /\ call.called
       /\ call.outcome.kind = "raise"
       /\ call.outcome.error.attrs[DefaultAnnotation].kind = "dict"
    THEN call.outcome.error.attrs[DefaultAnnotation].d
    ELSE EmptyDict

\* the annotation on the error after the invocation
CallAnnotation ==
    IF call.attrs[DefaultAnnotation].kind = "dict"
    THEN call.attrs[DefaultAnnotation].d ELSE EmptyDict

FiveKeys == {"outputs", "provides", "args", "results", "operation"}

\* C4 (as claimed): whenever a step of _compute raises, no mapping is
\* returned, the same exception instance propagates, and its annotation holds
\* outputs, provides, args, results and operation, operation being the
\* invoking instance unless an inner salvage recorded that key.
C4_FailureAnnotated ==
    StepRaised =>
        /\ call.status = "raised"
        /\ call.raised = "original"
        /\ FiveKeys \subseteq DOMAIN CallAnnotation
        /\ CallAnnotation["operation"] =
              IF "operation" \in DOMAIN InnerOf THEN InnerOf["operation"]
              ELSE SelfToken(op)

\* the last invocation found its needs and compute returned one result per
\* provided name, the names being distinct
WellFormedCall ==
    /\ call.status # "idle"
    /\ \A i \in 1..Len(op.needs) : op.needs[i] \in DOMAIN call.store
    /\ call.outcome.kind = "return"
    /\ Len(call.outcome.results) = Len(op.provides)
    /\ Distinct(op.provides)

\* what C5 says of every invocation but the key set under a requested filter
MappingLaw ==
    /\ call.status = "returned"
    /\ call.args = [i \in 1..Len(op.needs) |-> call.store[op.needs[i]]]
    /\ \A i \in 1..Len(op.provides) :
          op.provides[i] \in DOMAIN call.ret
              => call.ret[op.provides[i]] = call.outcome.results[i]
    /\ call.outputs.none => DOMAIN call.ret = Range(op.provides)

\* C5 (as claimed): needs are passed in order, provides[i] maps to the i-th
\* result, without outputs every provided name is returned, and for every
\* outputs other than None, an empty one included, exactly the provided names
\* that are in outputs are returned.
C5_FilterEvenWhenEmpty ==
    WellFormedCall =>
        /\ MappingLaw
        /\ ~call.outputs.none =>
              DOMAIN call.ret = Range(op.provides) \cap Range(call.outputs.names)

\* C5 (amended): as claimed for a non-empty outputs; an empty outputs is
\* treated like None and every provided name is returned.
C5_FilterWhenNonEmpty ==
    WellFormedCall =>
        /\ MappingLaw
        /\ (~call.outputs.none /\ call.outputs.names # << >>) =>
              DOMAIN call.ret = Range(op.provides) \cap Range(call.outputs.names)
        /\ (~call.outputs.none /\ call.outputs.names = << >>) =>
              DOMAIN call.ret = Range(op.provides)

\* C5 witness: two needs read in needs order, two provided names, and a
\* filter that keeps one of them.
C5_Witness ==
    /\ WellFormedCall
    /\ call.status = "returned"
    /\ op.needs = <<"y", "x">> /\ call.args = <<"3", "5">>
    /\ op.provides = <<"p", "q">>
    /\ call.outputs.names = <<"q">>
    /\ DOMAIN call.ret = {"q"} /\ call.ret["q"] = "r2"
    /\ call.outcome.results = <<"r1", "r2">>

\* -------------------------------------------------- claims on instances

\* C6: two operations with the same non-None name are equal and hash alike
\* whatever their needs, provides and params; an operation whose name is None
\* equals nothing, itself included; and equal operations hash alike.
C6_IdentityLaw ==
    res.kind = "compare" =>
        LET nx == objs[res.x].d["name"]
            isOp == res.y # "obj"
        IN  /\ (isOp /\ nx # PyNone /\ nx = objs[res.y].d["name"])
                  => (res.eq /\ res.hx = res.hy)
            /\ nx = PyNone => ~res.eq
            /\ res.eq => res.hx = res.hy

\* C6 witness: two operations of one name and different needs compare equal.
C6_Witness ==
    /\ res.kind = "compare"
    /\ res.x = "A" /\ res.y = "B"
    /\ objs["A"].d["name"] = PyStr("a") /\ objs["B"].d["name"] = PyStr("a")
    /\ objs["A"].d["needs"] # objs["B"].d["needs"]
    /\ res.eq /\ res.hx = res.hy

ValidMethods == {PyStr("sequential"), PyStr("parallel")}

\* C7: an invalid execution method and a collector that is neither None nor
\* a mutable mapping raise ValueError and leave the stored mode and collector
\* as they were; until a valid call changes them the mode is "sequential" and
\* the collector None.
C7_InvalidConfigRejected ==
    LET a == objs["A"]
    IN  /\ res.kind = "set_execution_method" =>
              IF res.arg \in ValidMethods
              THEN /\ ~res.raised
                   /\ a.d = SetAttr(res.before, "_execution_method", res.arg)
              ELSE res.raised /\ a.d = res.before
        /\ res.kind = "set_overwrites_collector" =>
              IF res.arg = PyNone \/ IsMutableMapping(res.arg)
              THEN /\ ~res.raised
                   /\ a.d = SetAttr(res.before, "_overwrites_collector", res.arg)
              ELSE res.raised /\ a.d = res.before
        /\ a.via = "init" =>
              /\ ~a.validM => a.d["_execution_method"] = PyStr("sequential")
              /\ ~a.validC => a.d["_overwrites_collector"] = PyNone

\* C7 witness: after "parallel" and a dict collector were set, "bogus" is
\* refused and both are still stored.
C7_Witness ==
    /\ res.kind = "set_execution_method"
    /\ res.arg = PyStr("bogus") /\ res.raised
    /\ objs["A"].via = "init"
    /\ objs["A"].d["_execution_method"] = PyStr("parallel")
    /\ objs["A"].d["_overwrites_collector"] = PyDict(EmptyDict)

PersistedAttrs == {"name", "needs", "provides", "params"}

\* C8: __getstate__ then __setstate__ gives an operation whose name, needs,
\* provides and params equal the original's (so it equals the original when
\* the name is not None), the state holds only those four attributes, and
\* _after_init ran exactly once in the restore.
C8_RoundTrip ==
    LET a == objs["A"]
    IN  /\ (pickled.has /\ pickled.cls = "Operation")
              => DOMAIN pickled.state = PersistedAttrs
        /\ (a.cls = "Operation" /\ a.via = "setstate") =>
              /\ \A k \in PersistedAttrs : k \in DOMAIN a.d /\ a.d[k] = a.orig[k]
              /\ a.orig["name"] # PyNone => OperationEq([d |-> a.orig], a.d)
              /\ a.hooks = 1

\* C8 witness: a restored operation with a name and a parameter.
C8_Witness ==
    LET a == objs["A"]
    IN  /\ a.cls = "Operation" /\ a.via = "setstate"
        /\ a.orig["name"] = PyStr("cc")
        /\ a.orig["params"] # PyDict(EmptyDict)
        /\ a.orig["needs"] = PyList(<<"x">>)
        /\ a.d["params"] = a.orig["params"]

\* C10 (as claimed): in every state reached by constructing, configuring,
\* pickling and unpickling a NetworkOperation it holds a mode in
\* {"sequential", "parallel"} and a collector that is None or a mutable
\* mapping, and invoking it delegates to net.compute.
C10_AlwaysConfigured ==
    LET a == objs["A"]
    IN  /\ a.cls = "NetworkOperation" =>
              /\ "_execution_method" \in DOMAIN a.d
              /\ a.d["_execution_method"] \in ValidMethods
              /\ "_overwrites_collector" \in DOMAIN a.d
              /\ \/ a.d["_overwrites_collector"] = PyNone
                 \/ IsMutableMapping(a.d["_overwrites_collector"])
        /\ res.kind = "compute" => res.out.result = "delegated"

====
